---- MODULE Spec2Model ----
(***************************************************************************)
(* PokemonListComponent (pokemon-list-component.ts): the per-entity        *)
(* recording sessions, the reference wavesurfers, the published scores and *)
(* the teardown of the audio resources.                                    *)
(*                                                                         *)
(* The component is modelled as handlers: each handler maps the state it   *)
(* finds to the library calls it makes, in order, and to the new values of *)
(* the component's fields (a "run").  The audio library is the             *)
(* environment: it executes the calls and delivers 'ready', 'record-end'   *)
(* and the timer callback some time after the call that requested them, in *)
(* any order, one callback at a time.                                      *)
(*                                                                         *)
(* A WaveSurfer instance is named <<kind, pokemonId, n>>: the n-th         *)
(* instance of that kind ("ref", "capture", "playback") created for the    *)
(* entity.                                                                 *)
(***************************************************************************)
EXTENDS Integers, FiniteSets, Sequences, TLC

\* ---- bounds of the model -------------------------------------------------
NumIds == 1            \* entities shown in the list
MaxWs == 3             \* WaveSurfer instances created in one run
MaxPendingEnds == 1    \* 'record-end' notifications in flight per recorder
MaxTimers == 1         \* comparison timers in flight per entity
MaxGrid == 1           \* steps of each descriptor's grid of values
MaxShort == 3          \* samples of the shortest buffers
MaxAround == 1         \* samples short of and beyond the analysis window

NoWs == <<>>           \* undefined: no WaveSurfer instance

VARIABLES
    wavesurfers,        \* Map<number, WaveSurfer>: reference instance per entity
    recordingSessions,  \* Map<number, RecorderState>
    similarityScores,   \* SimilarityScores: published score per entity
    ws,                 \* library: every WaveSurfer instance created so far
    recorder,           \* library: RecordPlugin of every capture instance
    timers,             \* platform: pending setTimeout callbacks per entity
    limits,             \* how far this exploration follows the library
    analysis            \* AudioAnalysisService: the call under study

vars == <<wavesurfers, recordingSessions, similarityScores, ws, recorder, timers, limits,
          analysis>>

\* the entities shown in the list
Ids == 1..limits.ids

\* ---- the library ---------------------------------------------------------
KindOf(r) == r[1]
OwnerOf(r) == r[2]

\* the state of the library and of the platform timers
Lib == [ws |-> ws, recorder |-> recorder, timers |-> timers]

\* the instance the next WaveSurfer.create of that kind returns
NextWs(kind, id) ==
    <<kind, id, Cardinality({r \in DOMAIN ws : KindOf(r) = kind /\ OwnerOf(r) = id}) + 1>>

\* a library call a handler makes: <<operation, instance>>; WaveSurfer.create
\* of a playback instance also names the capture whose blob it loads
TimerOf(id) == <<"timer", id, 0>>

\* WaveSurfer.create: with a 'url' (reference, playback) the clip is being
\* decoded
NewWs(r, blob) ==
    [destroyCalls |-> 0,
     decode |-> IF KindOf(r) = "capture" THEN "none" ELSE "pending",
     blobOf |-> blob]

\* RecordPlugin.create
NewRecorder == [state |-> "inactive", pendingEnds |-> 0]

\* record.startRecording(): asks for the microphone, then records
StartRecording(rec) ==
    IF rec.state = "inactive" THEN [rec EXCEPT !.state = "starting"] ELSE rec

\* record.stopRecording(): ends an active capture; 'record-end' follows later
StopRecording(rec) ==
    IF rec.state = "recording"
    THEN [rec EXCEPT !.state = "inactive", !.pendingEnds = @ + 1]
    ELSE rec

\* wavesurfer.destroy(): the instance drops its listeners, its pending load
\* and its decoded data; its RecordPlugin is destroyed with it: an active
\* capture ends, notifications already in flight are still delivered
Destroy(L, r) ==
    [L EXCEPT !.ws[r].destroyCalls = @ + 1,
              !.ws[r].decode = "none",
              !.recorder = IF r \in DOMAIN @ THEN [@ EXCEPT ![r].state = "inactive"] ELSE @]

\* the library state after one call
LibCall(L, c) ==
    CASE c[1] = "create" ->
            [L EXCEPT !.ws = (c[2] :> NewWs(c[2], c[3])) @@ @,
                      !.recorder = IF KindOf(c[2]) = "capture"
                                   THEN (c[2] :> NewRecorder) @@ @ ELSE @]
      [] c[1] = "destroy" -> Destroy(L, c[2])
      [] c[1] = "startRecording" -> [L EXCEPT !.recorder[c[2]] = StartRecording(@)]
      [] c[1] = "stopRecording" -> [L EXCEPT !.recorder[c[2]] = StopRecording(@)]
      [] c[1] = "setTimeout" -> [L EXCEPT !.timers[OwnerOf(c[2])] = @ + 1]
      [] OTHER -> L      \* play, stop, getDecodedData

\* the library state after a sequence of calls
RECURSIVE LibAfter(_, _)
LibAfter(L, calls) ==
    IF calls = <<>> THEN L ELSE LibAfter(LibCall(L, Head(calls)), Tail(calls))

\* the model follows the library up to its bounds
WithinBounds(L) ==
    /\ Cardinality(DOMAIN L.ws) <= limits.ws
    /\ \A r \in DOMAIN L.recorder : L.recorder[r].pendingEnds <= limits.pendingEnds
    /\ \A id \in Ids : L.timers[id] <= limits.timers

\* ---- runs ----------------------------------------------------------------
\* what a handler did: the calls it made, whether it ended by an exception,
\* and the fields of the component when it returned
Run(calls, raised, w, s, sc) ==
    [calls |-> calls, raised |-> raised,
     wavesurfers |-> w, recordingSessions |-> s, similarityScores |-> sc]

\* a run takes effect, on the library state L0 the handler was called in
Handle(run, L0) ==
    LET L == LibAfter(L0, run.calls)
    IN /\ WithinBounds(L)
       /\ ws' = L.ws
       /\ recorder' = L.recorder
       /\ timers' = L.timers
       /\ wavesurfers' = run.wavesurfers
       /\ recordingSessions' = run.recordingSessions
       /\ similarityScores' = run.similarityScores
       /\ UNCHANGED <<limits, analysis>>

\* the component after construction, nothing created yet
Constructed ==
    /\ wavesurfers = <<>>
    /\ recordingSessions = <<>>
    /\ similarityScores = <<>>
    /\ ws = <<>>
    /\ recorder = <<>>
    /\ timers = [i \in Ids |-> 0]

\* the service is injected and has no state: no call of it is under study
NoCall == [op |-> "none"]

Init ==
    /\ limits = [ids |-> NumIds, ws |-> MaxWs, pendingEnds |-> MaxPendingEnds,
                 timers |-> MaxTimers]
    /\ Constructed
    /\ analysis = NoCall

\* one more instance, one more notification and one more timer in flight
WideInit ==
    /\ limits = [ids |-> NumIds, ws |-> MaxWs + 1, pendingEnds |-> MaxPendingEnds + 1,
                 timers |-> MaxTimers + 1]
    /\ Constructed
    /\ analysis = NoCall

\* two entities in the list at least, and the instances that a scored
\* session of one and a reference or a capture of the other need
PairInit ==
    /\ limits = [ids |-> IF NumIds < 2 THEN 2 ELSE NumIds,
                 ws |-> IF MaxWs < 4 THEN 4 ELSE MaxWs,
                 pendingEnds |-> MaxPendingEnds, timers |-> MaxTimers]
    /\ Constructed
    /\ analysis = NoCall

\* ---- onPokemonClick / initializeWaveform ---------------------------------
initializeWaveform_recreating(pokemonId) ==
    LET wavesurfer == NextWs("ref", pokemonId)
    IN Run(<<<<"create", wavesurfer, NoWs>>>>, FALSE,
           (pokemonId :> wavesurfer) @@ wavesurfers, recordingSessions, similarityScores)
initializeWaveform(pokemonId) ==
    IF pokemonId \in DOMAIN wavesurfers
    THEN LET existingWavesurfer == wavesurfers[pokemonId]
         IN Run(<<<<"play", existingWavesurfer>>>>, FALSE,
                wavesurfers, recordingSessions, similarityScores)
    ELSE LET wavesurfer == NextWs("ref", pokemonId)
         IN Run(<<<<"create", wavesurfer, NoWs>>>>, FALSE,
                (pokemonId :> wavesurfer) @@ wavesurfers, recordingSessions, similarityScores)

\* cryUrl: the entity has a cry clip
onPokemonClick_ignoringUrl(pokemonId, cryUrl) == initializeWaveform(pokemonId)
onPokemonClick(pokemonId, cryUrl) ==
    IF cryUrl
    THEN initializeWaveform(pokemonId)
    ELSE Run(<<>>, FALSE, wavesurfers, recordingSessions, similarityScores)

\* ---- toggleRecording / initializeRecording -------------------------------
initializeRecording(pokemonId) ==
    [wavesurfer |-> NextWs("capture", pokemonId), isRecording |-> FALSE,
     playbackWavesurfer |-> NoWs]

\* if (!session): no entry for the entity in the session map
NoSession_always(pokemonId) == TRUE
NoSession(pokemonId) == pokemonId \notin DOMAIN recordingSessions

\* if (playbackWavesurfer): a recording already exists
HasRecording_never(session) == FALSE
HasRecording(session) == session.playbackWavesurfer # NoWs

\* record.stopRecording(); session.isRecording = false
Stopped_attaching(session) ==
    [session EXCEPT !.isRecording = FALSE, !.playbackWavesurfer = session.wavesurfer]
Stopped(session) == [session EXCEPT !.isRecording = FALSE]

\* record.startRecording(); session.isRecording = true
Started_unflagged(session) == session
Started(session) == [session EXCEPT !.isRecording = TRUE]

toggleRecording(pokemonId) ==
    LET fresh == NoSession(pokemonId)
        session == IF fresh THEN initializeRecording(pokemonId)
                   ELSE recordingSessions[pokemonId]
        record == session.wavesurfer
        made == IF fresh THEN <<<<"create", record, NoWs>>>> ELSE <<>>
        sessions == (pokemonId :> session) @@ recordingSessions
    IN IF HasRecording(session)
       THEN Run(made \o <<<<"play", session.playbackWavesurfer>>>>, FALSE,
                wavesurfers, sessions, similarityScores)
       ELSE IF session.isRecording
       THEN Run(made \o <<<<"stopRecording", record>>, <<"setTimeout", TimerOf(pokemonId)>>>>,
                FALSE, wavesurfers,
                [sessions EXCEPT ![pokemonId] = Stopped(session)], similarityScores)
       ELSE Run(made \o <<<<"startRecording", record>>>>, FALSE, wavesurfers,
                [sessions EXCEPT ![pokemonId] = Started(session)], similarityScores)

\* ---- record.on('record-end', ...) ----------------------------------------
\* the handler initializeRecording registers on the recorder of instance
\* wavesurfer; destroyThrows: wavesurfer.destroy() throws and ends the handler
recordEnd(wavesurfer, destroyThrows) ==
    LET pokemonId == OwnerOf(wavesurfer)
        playbackWavesurfer == NextWs("playback", pokemonId)
    IN IF destroyThrows
       THEN Run(<<<<"create", playbackWavesurfer, wavesurfer>>, <<"destroy", wavesurfer>>>>,
                TRUE, wavesurfers, recordingSessions, similarityScores)
       ELSE Run(<<<<"create", playbackWavesurfer, wavesurfer>>, <<"destroy", wavesurfer>>,
                  <<"stop", wavesurfer>>>>,
                FALSE, wavesurfers,
                IF pokemonId \in DOMAIN recordingSessions
                THEN [recordingSessions EXCEPT
                         ![pokemonId].playbackWavesurfer = playbackWavesurfer]
                ELSE recordingSessions,
                similarityScores)

\* ---- wavesurfer.on('ready', ...) -----------------------------------------
ready(wavesurfer) ==
    Run(<<<<"play", wavesurfer>>>>, FALSE, wavesurfers, recordingSessions, similarityScores)

\* ---- compareAudio --------------------------------------------------------
\* extractFeatures(r.getDecodedData()) is null unless the clip is decoded and
\* has samples
\* calculateSimilarity(features1, features2), as a term over the clips the
\* features were extracted from
Similarity_swapped(features1, features2) ==
    [reference |-> features2, recording |-> features1]
Similarity(features1, features2) ==
    [reference |-> features1, recording |-> features2]

HasFeatures_always(r) == TRUE
HasFeatures(r) == ws[r].decode = "ready"

compareAudio_unkeyed(pokemonId) ==
    IF /\ pokemonId \in DOMAIN recordingSessions
       /\ recordingSessions[pokemonId].playbackWavesurfer # NoWs
       /\ pokemonId \in DOMAIN wavesurfers
    THEN LET pokemonWavesurfer == wavesurfers[pokemonId]
             playbackWavesurfer == recordingSessions[pokemonId].playbackWavesurfer
         IN Run(<<<<"getDecodedData", pokemonWavesurfer>>,
                  <<"getDecodedData", playbackWavesurfer>>>>,
                FALSE, wavesurfers, recordingSessions,
                IF HasFeatures(pokemonWavesurfer) /\ HasFeatures(playbackWavesurfer)
                THEN [id \in Ids |-> Similarity(pokemonWavesurfer, playbackWavesurfer)]
                ELSE similarityScores)
    ELSE Run(<<>>, FALSE, wavesurfers, recordingSessions, similarityScores)

compareAudio(pokemonId) ==
    IF /\ pokemonId \in DOMAIN recordingSessions
       /\ recordingSessions[pokemonId].playbackWavesurfer # NoWs
       /\ pokemonId \in DOMAIN wavesurfers
    THEN LET pokemonWavesurfer == wavesurfers[pokemonId]
             playbackWavesurfer == recordingSessions[pokemonId].playbackWavesurfer
         IN Run(<<<<"getDecodedData", pokemonWavesurfer>>,
                  <<"getDecodedData", playbackWavesurfer>>>>,
                FALSE, wavesurfers, recordingSessions,
                IF HasFeatures(pokemonWavesurfer) /\ HasFeatures(playbackWavesurfer)
                THEN (pokemonId :> Similarity(pokemonWavesurfer, playbackWavesurfer))
                     @@ similarityScores
                ELSE similarityScores)
    ELSE Run(<<>>, FALSE, wavesurfers, recordingSessions, similarityScores)

\* ---- ngOnDestroy ---------------------------------------------------------
Range(f) == {f[x] : x \in DOMAIN f}

\* the instances the two maps hold
Held ==
    Range(wavesurfers)
    \cup {recordingSessions[i].wavesurfer : i \in DOMAIN recordingSessions}
    \cup ({recordingSessions[i].playbackWavesurfer : i \in DOMAIN recordingSessions} \ {NoWs})

\* the keys of a map, in the order forEach visits them
RECURSIVE Keys(_)
Keys(S) ==
    IF S = {} THEN <<>>
    ELSE LET k == CHOOSE x \in S : \A y \in S : x <= y IN <<k>> \o Keys(S \ {k})

RECURSIVE Flatten(_)
Flatten(ss) == IF ss = <<>> THEN <<>> ELSE Head(ss) \o Flatten(Tail(ss))

\* cleanupWavesurfers: one try/catch per instance
cleanupWavesurfers ==
    LET ks == Keys(DOMAIN wavesurfers)
    IN [n \in 1..Len(ks) |-> <<"destroy", wavesurfers[ks[n]]>>]

\* one pass of the forEach body of cleanupRecordingSessions: a single
\* try/catch around both destroys; F: the instances whose destroy() throws
cleanupSession_captureOnly(session, F) == <<<<"destroy", session.wavesurfer>>>>
cleanupSession(session, F) ==
    <<<<"destroy", session.wavesurfer>>>>
    \o (IF session.wavesurfer \in F \/ session.playbackWavesurfer = NoWs
        THEN <<>>
        ELSE <<<<"destroy", session.playbackWavesurfer>>>>)

cleanupRecordingSessions(F) ==
    LET ks == Keys(DOMAIN recordingSessions)
    IN Flatten([n \in 1..Len(ks) |-> cleanupSession(recordingSessions[ks[n]], F)])

\* Map.clear()
clear_nothing(map) == map
clear(map) == <<>>

ngOnDestroy_resettingScores(F) ==
    Run(cleanupWavesurfers \o cleanupRecordingSessions(F), FALSE,
        clear(wavesurfers), clear(recordingSessions), <<>>)
ngOnDestroy(F) ==
    Run(cleanupWavesurfers \o cleanupRecordingSessions(F), FALSE,
        clear(wavesurfers), clear(recordingSessions), similarityScores)

\* ---- the steps of the system ---------------------------------------------
\* the user clicks an entity of the list
Click(id, cryUrl) == Handle(onPokemonClick(id, cryUrl), Lib)

\* the user presses the record button of an entity
Toggle(id) == Handle(toggleRecording(id), Lib)

\* getUserMedia resolves: the capture becomes active
MicGranted(record) ==
    /\ record \in DOMAIN recorder
    /\ recorder[record].state = "starting"
    /\ recorder' = [recorder EXCEPT ![record].state = "recording"]
    /\ UNCHANGED <<wavesurfers, recordingSessions, similarityScores, ws, timers, limits, analysis>>

\* getUserMedia rejects (permission denied): startRecording's promise is dropped
MicDenied(record) ==
    /\ record \in DOMAIN recorder
    /\ recorder[record].state = "starting"
    /\ recorder' = [recorder EXCEPT ![record].state = "inactive"]
    /\ UNCHANGED <<wavesurfers, recordingSessions, similarityScores, ws, timers, limits, analysis>>

\* a 'record-end' in flight is delivered; destroyThrows: only on an instance
\* that was destroyed before
RecordEnd(record, destroyThrows) ==
    /\ record \in DOMAIN recorder
    /\ recorder[record].pendingEnds > 0
    /\ destroyThrows => ws[record].destroyCalls >= 1
    /\ Handle(recordEnd(record, destroyThrows),
              [Lib EXCEPT !.recorder[record].pendingEnds = @ - 1])

\* the clip of a reference or playback instance is decoded: 'ready' is
\* delivered.  A destroyed instance notifies nobody.  decoded: "ready", or
\* "empty" for a clip without samples (a blob of a capture that recorded
\* nothing)
DecodeReady(r, decoded) ==
    /\ r \in DOMAIN ws
    /\ decoded = "empty" => KindOf(r) = "playback"
    /\ ws[r].decode = "pending"
    /\ ws[r].destroyCalls = 0
    /\ Handle(ready(r), [Lib EXCEPT !.ws[r].decode = decoded])

\* the clip cannot be fetched or decoded: no 'ready'; nothing is registered
\* for 'error'
DecodeError(r) ==
    /\ r \in DOMAIN ws
    /\ ws[r].decode = "pending"
    /\ ws[r].destroyCalls = 0
    /\ ws' = [ws EXCEPT ![r].decode = "failed"]
    /\ UNCHANGED <<wavesurfers, recordingSessions, similarityScores, recorder, timers, limits, analysis>>

\* the setTimeout(..., 500) callback scheduled by toggleRecording
TimerFires(id) ==
    /\ timers[id] > 0
    /\ Handle(compareAudio(id), [Lib EXCEPT !.timers[id] = @ - 1])

\* destroy() throws only on an instance that was destroyed before ("Can't
\* close an AudioContext twice")
Faulty == {r \in Held : ws[r].destroyCalls >= 1}

\* the component is destroyed; F: the instances whose destroy() throws
Teardown(F) == Handle(ngOnDestroy(F), Lib)

Next ==
    \/ \E id \in Ids, cryUrl \in BOOLEAN : Click(id, cryUrl)
    \/ \E id \in Ids : Toggle(id)
    \/ \E record \in DOMAIN recorder : MicGranted(record)
    \/ \E record \in DOMAIN recorder : MicDenied(record)
    \/ \E record \in DOMAIN recorder, destroyThrows \in BOOLEAN : RecordEnd(record, destroyThrows)
    \/ \E r \in DOMAIN ws, decoded \in {"ready", "empty"} : DecodeReady(r, decoded)
    \/ \E r \in DOMAIN ws : DecodeError(r)
    \/ \E id \in Ids : TimerFires(id)
    \/ \E F \in SUBSET Faulty : Teardown(F)

Spec == Init /\ [][Next]_vars

WideSpec == WideInit /\ [][Next]_vars

PairSpec == PairInit /\ [][Next]_vars

\* ---- properties ----------------------------------------------------------
HasSession(id) == id \in DOMAIN recordingSessions

\* the captured-playback instance the entity's session holds, if any
PlaybackOf(id) ==
    IF HasSession(id) THEN recordingSessions[id].playbackWavesurfer ELSE NoWs

CallsOf(run) == {run.calls[n] : n \in 1..Len(run.calls)}

Captures(id) == {r \in DOMAIN ws : KindOf(r) = "capture" /\ OwnerOf(r) = id}

\* the component is destroyed, whichever destroy calls throw
SomeTeardown ==
    /\ UNCHANGED <<similarityScores, timers>>
    /\ Held = {} \/ \E r \in Held : ws'[r].destroyCalls > ws[r].destroyCalls
    /\ \E F \in SUBSET Faulty : Teardown(F)

\* a record-end of a recorder of the entity is delivered
SomeRecordEnd(id) ==
    \E c \in Captures(id) : recorder'[c].pendingEnds < recorder[c].pendingEnds

\* C1: once the session of an entity holds a captured-playback instance, it
\* keeps holding one until teardown, and toggleRecording for the entity does
\* nothing but play that instance: no startRecording, no stopRecording, no
\* new instance, no comparison timer, no change of the session.
C1_ReplayOnly ==
    /\ [](\A id \in Ids :
             PlaybackOf(id) # NoWs =>
                LET run == toggleRecording(id)
                IN /\ run.calls = <<<<"play", PlaybackOf(id)>>>>
                   /\ ~run.raised
                   /\ run.recordingSessions = recordingSessions
                   /\ LibAfter(Lib, run.calls) = Lib)
    /\ [][\A id \in Ids :
             PlaybackOf(id) # NoWs => (PlaybackOf(id)' # NoWs \/ SomeTeardown)]_vars

\* the capture is complete and the playback is decoded: from here the button
\* replays
C1_Witness ==
    \E id \in Ids :
       /\ PlaybackOf(id) # NoWs
       /\ ws[PlaybackOf(id)].decode = "ready"
       /\ toggleRecording(id).calls = <<<<"play", PlaybackOf(id)>>>>
       /\ recorder[recordingSessions[id].wavesurfer].pendingEnds = 0

\* C2: at most one capture instance of an entity is alive (created and not
\* yet destroyed) at any time; a capture instance is created only by a
\* toggleRecording that finds no entry for the entity in the session map and
\* becomes the instance of the new entry; the capture instance of an existing
\* entry is never replaced.
C2_OneCapture ==
    /\ [](\A id \in Ids : Cardinality({r \in Captures(id) : ws[r].destroyCalls = 0}) <= 1)
    /\ [](\A id \in Ids :
             HasSession(id) => \A c \in CallsOf(toggleRecording(id)) : c[1] # "create")
    /\ [][\A id \in Ids :
             /\ (HasSession(id) /\ HasSession(id)') =>
                   recordingSessions'[id].wavesurfer = recordingSessions[id].wavesurfer
             /\ \A c \in Captures(id)' \ Captures(id) :
                   /\ ~HasSession(id)
                   /\ HasSession(id)'
                   /\ recordingSessions'[id].wavesurfer = c
                   /\ toggleRecording(id).calls[1] = <<"create", c, NoWs>>]_vars

\* a second session of the entity, created after a teardown released the
\* first
C2_Witness ==
    \E id \in Ids :
       /\ HasSession(id)
       /\ Cardinality(Captures(id)) = 2
       /\ ws[recordingSessions[id].wavesurfer].destroyCalls = 0
       /\ \A c \in Captures(id) \ {recordingSessions[id].wavesurfer} : ws[c].destroyCalls >= 1

C4_CompareAfterCapture ==
    [][\A id \in Ids : TimerFires(id) => PlaybackOf(id) # NoWs]_vars

\* no notification or timer for the entity is still to be delivered
Quiet(id) ==
    /\ timers[id] = 0
    /\ \A r \in DOMAIN recorder :
          OwnerOf(r) = id => recorder[r].pendingEnds = 0 /\ recorder[r].state # "starting"
    /\ \A r \in DOMAIN ws : OwnerOf(r) = id => ws[r].decode # "pending"

\* C5: once the capture of an entity is complete and decoded, its reference
\* clip is decoded and nothing for the entity is left to be delivered, a
\* score for the entity has been published.
C5_ScoreWhenSettled ==
    \A id \in Ids :
       (/\ PlaybackOf(id) # NoWs
        /\ ws[PlaybackOf(id)].decode = "ready"
        /\ id \in DOMAIN wavesurfers
        /\ ws[wavesurfers[id]].decode = "ready"
        /\ Quiet(id))
       => id \in DOMAIN similarityScores

\* C6: when the record-end of a stop that was in flight at teardown is
\* handled (the session is gone), no instance of the entity outside the maps
\* is left without a destroy call.
C6_NoLeakAfterLateRecordEnd ==
    [][\A id \in Ids :
          (SomeRecordEnd(id) /\ ~HasSession(id)) =>
             \A r \in DOMAIN ws' \ Held' : OwnerOf(r) = id => ws'[r].destroyCalls >= 1]_vars

\* C7: teardown calls destroy only on instances that were not destroyed
\* before: no instance it releases has received more than one destroy call.
C7_DestroyAtMostOnce ==
    [][SomeTeardown => \A r \in Held : ws'[r].destroyCalls <= 1]_vars

\* C8: teardown calls destroy on every instance the maps hold, whichever of
\* the calls throw, and raises nothing.
C8_TeardownFaultTolerant ==
    [][\A F \in SUBSET Faulty :
          Teardown(F) =>
             /\ \A r \in Held : <<"destroy", r>> \in CallsOf(ngOnDestroy(F))
             /\ ~ngOnDestroy(F).raised]_vars

\* C9: a teardown in which no destroy throws calls destroy once on every
\* instance the reference map and the session map hold (references, capture
\* instances, playback instances) and leaves both maps empty.
C9_TeardownReleasesAll ==
    [][(SomeTeardown /\ Teardown({})) =>
          /\ \A r \in Held :
                /\ <<"destroy", r>> \in CallsOf(ngOnDestroy({}))
                /\ ws'[r].destroyCalls = ws[r].destroyCalls + 1
          /\ Len(ngOnDestroy({}).calls) = Cardinality(Held)
          /\ wavesurfers' = <<>>
          /\ recordingSessions' = <<>>]_vars

\* a teardown has released a reference, a capture and the playback made from
\* it
C9_Witness ==
    /\ wavesurfers = <<>>
    /\ recordingSessions = <<>>
    /\ \E p \in DOMAIN ws, r \in DOMAIN ws :
          /\ KindOf(p) = "playback"
          /\ KindOf(r) = "ref"
          /\ ws[p].destroyCalls = 1
          /\ ws[r].destroyCalls = 1
          /\ ws[ws[p].blobOf].destroyCalls = 2

\* an ngOnDestroy in this state makes no call, raises nothing and changes
\* nothing
TeardownIsNoOp ==
    LET run == ngOnDestroy({})
    IN /\ Held = {}
       /\ run.calls = <<>>
       /\ ~run.raised
       /\ run.wavesurfers = wavesurfers
       /\ run.recordingSessions = recordingSessions
       /\ run.similarityScores = similarityScores

\* C10: an ngOnDestroy directly after an ngOnDestroy makes no destroy call,
\* raises nothing and changes nothing.
C10_TeardownIdempotent ==
    [][SomeTeardown => TeardownIsNoOp']_vars

\* after a teardown that released instances, a second one finds nothing
C10_Witness ==
    /\ TeardownIsNoOp
    /\ DOMAIN ws # {}
    /\ \A r \in DOMAIN ws : ws[r].destroyCalls = 1
    /\ \E r \in DOMAIN ws : KindOf(r) = "capture"

\* compareAudio for the entity gets as far as scoring: session, playback and
\* reference exist and both clips yield features
CanCompare(id) ==
    /\ PlaybackOf(id) # NoWs
    /\ id \in DOMAIN wavesurfers
    /\ ws[wavesurfers[id]].decode = "ready"
    /\ ws[PlaybackOf(id)].decode = "ready"

\* the published score of the entity, if any
ScoreOf(id) == IF id \in DOMAIN similarityScores THEN <<similarityScores[id]>> ELSE <<>>

\* C11: the published score of an entity changes only in a compareAudio for
\* that entity that gets as far as scoring; toggleRecording, onPokemonClick,
\* the record-end and ready handlers, the library's notifications and
\* teardown leave similarityScores as it is.
C11_ScoreFrame ==
    [][\A id \in Ids :
          ScoreOf(id)' # ScoreOf(id) => (TimerFires(id) /\ CanCompare(id))]_vars

\* a score was published and survived the teardown that followed
C11_Witness ==
    \E id \in Ids :
       /\ ScoreOf(id) # <<>>
       /\ wavesurfers = <<>>
       /\ recordingSessions = <<>>
       /\ ws[similarityScores[id].recording].destroyCalls = 1

\* C12: a compareAudio that cannot get as far as scoring (no session, no
\* playback, no reference, a clip not decoded or without features) raises
\* nothing and leaves the session map, the reference map, the scores and the
\* library as they were.
C12_FailedCompareIsNoOp ==
    \A id \in Ids :
       ~CanCompare(id) =>
          LET run == compareAudio(id)
          IN /\ ~run.raised
             /\ run.wavesurfers = wavesurfers
             /\ run.recordingSessions = recordingSessions
             /\ run.similarityScores = similarityScores
             /\ LibAfter(Lib, run.calls) = Lib

\* the comparison timer of a stopped session has fired and published
\* nothing: the captured clip has no samples
C12_Witness ==
    \E id \in Ids :
       /\ PlaybackOf(id) # NoWs
       /\ ~recordingSessions[id].isRecording
       /\ timers[id] = 0
       /\ ws[PlaybackOf(id)].decode = "empty"
       /\ id \in DOMAIN wavesurfers
       /\ ws[wavesurfers[id]].decode = "ready"
       /\ ScoreOf(id) = <<>>

\* C13: when the reference and the captured playback of an entity are both
\* decoded and yield features, compareAudio for the entity stores, under the
\* id of that entity, the similarity of the reference's features (first
\* argument) and the capture's features (second argument), and changes no
\* other score and neither map.
C13_ScoreIsSimilarity ==
    \A id \in Ids :
       CanCompare(id) =>
          LET run == compareAudio(id)
          IN /\ id \in DOMAIN run.similarityScores
             /\ run.similarityScores[id] =
                   [reference |-> wavesurfers[id], recording |-> PlaybackOf(id)]
             /\ \A j \in Ids \ {id} :
                   /\ j \in DOMAIN run.similarityScores <=> j \in DOMAIN similarityScores
                   /\ j \in DOMAIN similarityScores =>
                         run.similarityScores[j] = similarityScores[j]
             /\ run.wavesurfers = wavesurfers
             /\ run.recordingSessions = recordingSessions
             /\ ~run.raised

\* the score of the entity's current reference and capture is published
C13_Witness ==
    \E id \in Ids :
       /\ CanCompare(id)
       /\ timers[id] = 0
       /\ ScoreOf(id) = <<[reference |-> wavesurfers[id], recording |-> PlaybackOf(id)]>>

\* the published score of the entity was computed for the capture of its
\* current session
SessionScored(id) ==
    /\ id \in DOMAIN similarityScores
    /\ HasSession(id)
    /\ similarityScores[id].recording \in DOMAIN ws
    /\ ws[similarityScores[id].recording].blobOf = recordingSessions[id].wavesurfer

\* C14: once a score is published for the session of an entity, no step
\* changes the score of that entity while the session stays in the map.
C14_ScoredIsTerminal ==
    [][\A id \in Ids :
          (SessionScored(id) /\ HasSession(id)') => ScoreOf(id)' = ScoreOf(id)]_vars

\* what the caller (the template) can read of the component: the fields the
\* handlers write.  'error' is written by fetchPokemon only.
Fields == <<wavesurfers, recordingSessions, similarityScores>>

\* C15: when the microphone is denied for the recorder of a session, or the
\* decode of a reference clip fails, a field of the component changes: the
\* failure is readable, and the state differs from the one a granted
\* microphone or a decoded clip leaves.
C15_FailureObservable ==
    [][((\E record \in DOMAIN recorder : MicDenied(record))
        \/ (\E r \in DOMAIN ws : KindOf(r) = "ref" /\ DecodeError(r)))
       => Fields' # Fields]_vars

\* C16: when the decode of the entity's reference clip has failed, the next
\* onPokemonClick for the entity (with a clip URL) loads the clip again.
C16_DecodeRetry ==
    \A id \in Ids :
       (id \in DOMAIN wavesurfers /\ ws[wavesurfers[id]].decode = "failed") =>
          \E c \in CallsOf(onPokemonClick(id, TRUE)) : c[1] = "create"

References(id) == {r \in DOMAIN ws : KindOf(r) = "ref" /\ OwnerOf(r) = id}

\* C17: at most one reference instance of an entity is alive; onPokemonClick
\* with a clip URL creates one only when the reference map has no entry for
\* the entity and stores it there; with an entry, the click only plays the
\* instance of the entry and creates and changes nothing.
C17_OneReference ==
    \A id \in Ids :
       LET run == onPokemonClick(id, TRUE)
       IN /\ Cardinality({r \in References(id) : ws[r].destroyCalls = 0}) <= 1
          /\ id \in DOMAIN wavesurfers =>
                /\ run.calls = <<<<"play", wavesurfers[id]>>>>
                /\ run.wavesurfers = wavesurfers
                /\ LibAfter(Lib, run.calls) = Lib
          /\ id \notin DOMAIN wavesurfers =>
                /\ run.calls = <<<<"create", NextWs("ref", id), NoWs>>>>
                /\ run.wavesurfers[id] = NextWs("ref", id)

\* the reference of the entity exists and is decoded: a click replays it
C17_Witness ==
    \E id \in Ids :
       /\ id \in DOMAIN wavesurfers
       /\ ws[wavesurfers[id]].decode = "ready"
       /\ References(id) = {wavesurfers[id]}
       /\ onPokemonClick(id, TRUE).calls = <<<<"play", wavesurfers[id]>>>>

\* C18: onPokemonClick calls play only on a reference instance whose clip is
\* decoded ('ready' was delivered).
C18_PlayAfterReady ==
    \A id \in Ids :
       \A c \in CallsOf(onPokemonClick(id, TRUE)) :
          c[1] = "play" => ws[c[2]].decode \in {"ready", "empty"}

\* C19: onPokemonClick for an entity without a clip URL makes no library
\* call, raises nothing and leaves the reference map, the session map and the
\* scores as they are.
C19_NoUrlNoOp ==
    \A id \in Ids :
       LET run == onPokemonClick(id, FALSE)
       IN /\ run.calls = <<>>
          /\ ~run.raised
          /\ run.wavesurfers = wavesurfers
          /\ run.recordingSessions = recordingSessions
          /\ run.similarityScores = similarityScores

\* an entity with a session and no reference: a click with a clip URL would
\* create the reference, the click without one does nothing
C19_Witness ==
    \E id \in Ids :
       /\ HasSession(id)
       /\ id \notin DOMAIN wavesurfers
       /\ References(id) = {}
       /\ onPokemonClick(id, FALSE).calls = <<>>
       /\ onPokemonClick(id, TRUE).calls # <<>>

\* the session of the entity is capturing, as its isRecording field says
IsRecording(id) == HasSession(id) /\ recordingSessions[id].isRecording

\* C20: while the session of an entity holds no playback, toggleRecording
\* for the entity calls startRecording when the session is new or not
\* recording, and stopRecording followed by setTimeout when it is recording;
\* it flips isRecording, and only a toggleRecording of the entity changes
\* isRecording: the calls alternate, start first, and only a stop schedules a
\* comparison.
C20_StartStopAlternate ==
    /\ [](\A id \in Ids :
             PlaybackOf(id) = NoWs =>
                LET run == toggleRecording(id)
                    record == run.recordingSessions[id].wavesurfer
                IN /\ run.recordingSessions[id].isRecording = ~IsRecording(id)
                   /\ run.recordingSessions[id].playbackWavesurfer = NoWs
                   /\ IF IsRecording(id)
                      THEN run.calls = <<<<"stopRecording", record>>,
                                         <<"setTimeout", TimerOf(id)>>>>
                      ELSE /\ run.calls[Len(run.calls)] = <<"startRecording", record>>
                           /\ \A c \in CallsOf(run) :
                                 c[1] \notin {"stopRecording", "setTimeout"})
    /\ [][\A id \in Ids :
             (HasSession(id) /\ HasSession(id)' /\ IsRecording(id)' # IsRecording(id))
                => Toggle(id)]_vars

\* a start and then a stop have been issued for a session without playback
C20_Witness ==
    \E id \in Ids :
       /\ HasSession(id)
       /\ PlaybackOf(id) = NoWs
       /\ ~IsRecording(id)
       /\ timers[id] = 1
       /\ recorder[recordingSessions[id].wavesurfer].pendingEnds = 1

\* ---- AudioAnalysisService: calculateSimilarity ----------------------------
\* The numbers of the service are decimal fractions.  The model counts each
\* in units of 1/2000: descriptors given to two decimals and centroids in
\* whole hertz make every product, quotient and weighted sum below exact.
Num(n) == n * 2000
\* h/100
Dec(h) == h * 20
\* x * 0.t, for a weight of t tenths
Times(x, tenths) == (x * tenths) \div 10

Abs(x) == IF x < 0 THEN -x ELSE x
Max(a, b) == IF a > b THEN a ELSE b
Min(a, b) == IF a < b THEN a ELSE b

\* Number.prototype.toFixed(2): the decimal string of the nearest hundredth,
\* the larger of two equally near; the string is the count of hundredths
toFixed(x) == (x + 10) \div 20
parseFloat(hundredths) == hundredths * 20

rmsDiff(features1, features2) == Abs(features1.rms - features2.rms)
spectralDiff(features1, features2) ==
    Abs(features1.spectralCentroid - features2.spectralCentroid)
zcrDiff(features1, features2) == Abs(features1.zcr - features2.zcr)
energyDiff(features1, features2) == Abs(features1.energy - features2.energy)

\* audio-analysis.service.ts
rmsSimilarity_unclamped(d) == Num(100) - d * 100
rmsSimilarity(d) == Max(0, Num(100) - d * 100)
spectralSimilarity_rising(d) == Min(Num(100), d \div 100)
spectralSimilarity(d) == Max(0, Num(100) - d \div 100)
zcrSimilarity(d) == Max(0, Num(100) - d * 100)
energySimilarity(d) == Max(0, Num(100) - d * 100)

overallSimilarity_underweighted(features1, features2) ==
    Times(rmsSimilarity(rmsDiff(features1, features2)), 3)
    + Times(spectralSimilarity(spectralDiff(features1, features2)), 3)
    + Times(zcrSimilarity(zcrDiff(features1, features2)), 2)
    + Times(energySimilarity(energyDiff(features1, features2)), 1)

overallSimilarity(features1, features2) ==
    Times(rmsSimilarity(rmsDiff(features1, features2)), 3)
    + Times(spectralSimilarity(spectralDiff(features1, features2)), 3)
    + Times(zcrSimilarity(zcrDiff(features1, features2)), 2)
    + Times(energySimilarity(energyDiff(features1, features2)), 2)

calculateSimilarity(features1, features2) ==
    parseFloat(toFixed(overallSimilarity(features1, features2)))

\* the variant of the service with the "fun app" adjustments
rmsSimilarity_fun(d) == Max(0, Num(100) - d * 50)
spectralSimilarity_fun(d) == Max(0, Num(100) - d \div 200)
zcrSimilarity_fun(d) == Max(0, Num(100) - d * 30)
energySimilarity_fun(d) == Max(0, Num(100) - d * 40)

overallSimilarity_fun(features1, features2) ==
    Times(rmsSimilarity_fun(rmsDiff(features1, features2)), 3)
    + Times(spectralSimilarity_fun(spectralDiff(features1, features2)), 2)
    + Times(zcrSimilarity_fun(zcrDiff(features1, features2)), 2)
    + Times(energySimilarity_fun(energyDiff(features1, features2)), 3)

boostedSimilarity_swapped(overall) ==
    IF overall >= Num(80) THEN Min(Num(100), overall + Num(5))
    ELSE IF overall >= Num(70) THEN Min(Num(100), overall + Num(10))
    ELSE overall

boostedSimilarity(overall) ==
    IF overall >= Num(80) THEN Min(Num(100), overall + Num(10))
    ELSE IF overall >= Num(70) THEN Min(Num(100), overall + Num(5))
    ELSE overall

calculateSimilarity_fun(features1, features2) ==
    parseFloat(toFixed(boostedSimilarity(overallSimilarity_fun(features1, features2))))

\* ---- AudioAnalysisService: extractFeatures --------------------------------
bufferSize == 4096

\* TypedArray.prototype.slice(start, end): the elements start .. end-1
slice(array, start, end) == SubSeq(array, start + 1, end)

RECURSIVE IsPowerOfTwo(_)
IsPowerOfTwo(n) ==
    IF n = 1 THEN TRUE
    ELSE IF n < 1 \/ n % 2 = 1 THEN FALSE
    ELSE IsPowerOfTwo(n \div 2)

\* Meyda.extract(['rms', 'spectralCentroid', 'zcr', 'energy'], signal): "Meyda
\* requires buffer size to be a power of 2"; it throws on any other size.
\* The descriptors it returns are those of the signal it was given.
MeydaExtract_anySize(signal) == [threw |-> FALSE, features |-> [of |-> signal]]
MeydaExtract(signal) ==
    IF IsPowerOfTwo(Len(signal))
    THEN [threw |-> FALSE, features |-> [of |-> signal]]
    ELSE [threw |-> TRUE]

\* what one call did: the diagnostic it wrote to the console, the signals it
\* passed to Meyda.extract, and what it returned
Extracted(console, extract, returned, features) ==
    [console |-> console, extract |-> extract, returned |-> returned,
     features |-> features]

extractFeatures_lengthUnchecked(audioBuffer) ==
    IF ~audioBuffer.present
    THEN Extracted("warn", <<>>, "null", <<>>)
    ELSE LET sampleLength == Min(bufferSize, audioBuffer.length)
             signal == slice(audioBuffer.channelData[1], 0, sampleLength)
             features == MeydaExtract(signal)
         IN IF features.threw
            THEN Extracted("error", <<signal>>, "null", <<>>)
            ELSE Extracted("", <<signal>>, "features", features.features)

extractFeatures_wholeBuffer(audioBuffer) ==
    IF ~audioBuffer.present \/ audioBuffer.length = 0
    THEN Extracted("warn", <<>>, "null", <<>>)
    ELSE LET signal == audioBuffer.channelData[1]
             features == MeydaExtract(signal)
         IN IF features.threw
            THEN Extracted("error", <<signal>>, "null", <<>>)
            ELSE Extracted("", <<signal>>, "features", features.features)

extractFeatures(audioBuffer) ==
    IF ~audioBuffer.present \/ audioBuffer.length = 0
    THEN Extracted("warn", <<>>, "null", <<>>)
    ELSE LET sampleLength == Min(bufferSize, audioBuffer.length)
             signal == slice(audioBuffer.channelData[1], 0, sampleLength)
             features == MeydaExtract(signal)
         IN IF features.threw
            THEN Extracted("error", <<signal>>, "null", <<>>)
            ELSE Extracted("", <<signal>>, "features", features.features)

\* ---- the calls of the service --------------------------------------------
\* descriptor values: a grid, the values of the documented scenarios, and a
\* very large one
RmsValues == {Dec(50 * k) : k \in 0..MaxGrid} \cup {Dec(80), Num(100)}
CentroidValues == {Num(1501 * k) : k \in 0..MaxGrid} \cup {Num(1500), Num(1000000)}
ZcrValues == {Dec(10 * k) : k \in 0..MaxGrid} \cup {Num(100)}
EnergyValues == {Dec(20 * k) : k \in 0..MaxGrid} \cup {Num(1), Num(10000)}

AudioFeatures ==
    [rms : RmsValues, spectralCentroid : CentroidValues, zcr : ZcrValues,
     energy : EnergyValues]

\* sample i of channel c, one of -1, 0, 1
Sample(c, i) == ((i + c) % 3) - 1

AudioBuffer(length, numberOfChannels) ==
    [present |-> TRUE, length |-> length, numberOfChannels |-> numberOfChannels,
     channelData |-> [c \in 1..numberOfChannels |-> [i \in 1..length |-> Sample(c, i)]]]

\* null or undefined in place of the buffer
NoBuffer == [present |-> FALSE, length |-> 0, numberOfChannels |-> 0, channelData |-> <<>>]

\* 2000 and 10000 samples are the lengths the method's comments work out
BufferLengths ==
    (0..MaxShort) \cup {2000, 10000}
    \cup {bufferSize - k : k \in 0..MaxAround} \cup {bufferSize + k : k \in 0..MaxAround}

AudioBuffers == {NoBuffer} \cup {AudioBuffer(n, c) : n \in BufferLengths, c \in 1..2}

\* a call of the service is under study; its arguments are any of the above
ServiceInit ==
    /\ limits = [ids |-> NumIds, ws |-> MaxWs, pendingEnds |-> MaxPendingEnds,
                 timers |-> MaxTimers]
    /\ Constructed
    /\ \/ \E features1 \in AudioFeatures, features2 \in AudioFeatures :
              analysis = [op |-> "calculateSimilarity", state |-> "called",
                          features1 |-> features1, features2 |-> features2]
       \/ \E audioBuffer \in AudioBuffers :
              analysis = [op |-> "extractFeatures", state |-> "called",
                          audioBuffer |-> audioBuffer]

Component == <<wavesurfers, recordingSessions, similarityScores, ws, recorder, timers>>

\* calculateSimilarity of audio-analysis.service.ts runs and returns
CalculateSimilarity ==
    /\ analysis.op = "calculateSimilarity"
    /\ analysis.state = "called"
    /\ LET features1 == analysis.features1
           features2 == analysis.features2
       IN analysis' =
              [op |-> "calculateSimilarity", state |-> "returned",
               file |-> "audio-analysis.service.ts",
               features1 |-> features1, features2 |-> features2,
               rmsSimilarity |-> rmsSimilarity(rmsDiff(features1, features2)),
               spectralSimilarity |-> spectralSimilarity(spectralDiff(features1, features2)),
               zcrSimilarity |-> zcrSimilarity(zcrDiff(features1, features2)),
               energySimilarity |-> energySimilarity(energyDiff(features1, features2)),
               overallSimilarity |-> overallSimilarity(features1, features2),
               returned |-> calculateSimilarity(features1, features2)]
    /\ UNCHANGED <<Component, limits>>

\* calculateSimilarity of the variant runs and returns
CalculateSimilarityFun ==
    /\ analysis.op = "calculateSimilarity"
    /\ analysis.state = "called"
    /\ LET features1 == analysis.features1
           features2 == analysis.features2
       IN analysis' =
              [op |-> "calculateSimilarity", state |-> "returned",
               file |-> "variant",
               features1 |-> features1, features2 |-> features2,
               rmsSimilarity |-> rmsSimilarity_fun(rmsDiff(features1, features2)),
               spectralSimilarity |->
                   spectralSimilarity_fun(spectralDiff(features1, features2)),
               zcrSimilarity |-> zcrSimilarity_fun(zcrDiff(features1, features2)),
               energySimilarity |-> energySimilarity_fun(energyDiff(features1, features2)),
               overallSimilarity |-> overallSimilarity_fun(features1, features2),
               returned |-> calculateSimilarity_fun(features1, features2)]
    /\ UNCHANGED <<Component, limits>>

\* extractFeatures runs and returns; the service holds nothing of the
\* component
ExtractFeatures ==
    /\ analysis.op = "extractFeatures"
    /\ analysis.state = "called"
    /\ LET run == extractFeatures(analysis.audioBuffer)
       IN analysis' =
              [op |-> "extractFeatures", state |-> "returned",
               audioBuffer |-> analysis.audioBuffer,
               console |-> run.console, extract |-> run.extract,
               returned |-> run.returned, features |-> run.features]
    /\ UNCHANGED <<Component, limits>>

ServiceNext ==
    \/ CalculateSimilarity
    \/ CalculateSimilarityFun
    \/ ExtractFeatures

ServiceSpec == ServiceInit /\ [][ServiceNext]_vars

\* the call under study has returned
Returned(op) == analysis.op = op /\ analysis.state = "returned"

\* ---- the score ----------------------------------------------------------
\* the feature sets of the documented scenarios, and the extreme ones
Silent == [rms |-> 0, spectralCentroid |-> 0, zcr |-> 0, energy |-> 0]
Typical == [rms |-> Dec(50), spectralCentroid |-> Num(1500), zcr |-> Dec(10),
            energy |-> Dec(20)]
Huge == [rms |-> Num(100), spectralCentroid |-> Num(1000000), zcr |-> Num(100),
         energy |-> Num(10000)]

\* C21: for all feature sets a and b with finite descriptor values, the
\* all-zero and the very large ones included, calculateSimilarity(a, b)
\* returns a value in the closed range [0, 100] (both files of the service)
C21_ScoreInRange ==
    Returned("calculateSimilarity") =>
        /\ 0 <= analysis.returned
        /\ analysis.returned <= Num(100)

\* the all-zero set was scored against the very large one
C21_Witness ==
    /\ Returned("calculateSimilarity")
    /\ analysis.features1 = Silent
    /\ analysis.features2 = Huge
    /\ analysis.returned = 0

\* C22: for every valid feature set a, calculateSimilarity(a, a) returns
\* exactly 100 (both files of the service)
C22_SelfScoreIsMaximal ==
    (Returned("calculateSimilarity") /\ analysis.features1 = analysis.features2) =>
        analysis.returned = Num(100)

\* RMS=0.5, centroid=1500, zcr=0.1, energy=0.2 was scored against itself
C22_Witness ==
    /\ Returned("calculateSimilarity")
    /\ analysis.features1 = Typical
    /\ analysis.features2 = Typical
    /\ analysis.file = "audio-analysis.service.ts"
    /\ analysis.returned = Num(100)

\* C23: calculateSimilarity applies the generosity boost to the weighted
\* overall similarity s: s >= 80 gives min(100, s + 10), else s >= 70 gives
\* min(100, s + 5), else s; the result is then rounded
C23_BoostApplied ==
    Returned("calculateSimilarity") =>
        LET s == analysis.overallSimilarity
            boosted == IF s >= Num(80) THEN Min(Num(100), s + Num(10))
                       ELSE IF s >= Num(70) THEN Min(Num(100), s + Num(5))
                       ELSE s
        IN analysis.returned = parseFloat(toFixed(boosted))

\* C24: before boosting, overall = 0.3*max(0, 100 - 50*d_rms)
\* + 0.2*max(0, 100 - d_centroid/200) + 0.2*max(0, 100 - 30*d_zcr)
\* + 0.3*max(0, 100 - 40*d_energy), each d the absolute difference of the
\* descriptor; the weights sum to 1.0; the returned value has two decimals
C24_WeightedFormula ==
    Returned("calculateSimilarity") =>
        LET d_rms == Abs(analysis.features1.rms - analysis.features2.rms)
            d_centroid == Abs(analysis.features1.spectralCentroid
                              - analysis.features2.spectralCentroid)
            d_zcr == Abs(analysis.features1.zcr - analysis.features2.zcr)
            d_energy == Abs(analysis.features1.energy - analysis.features2.energy)
        IN /\ analysis.overallSimilarity =
                  Times(Max(0, Num(100) - 50 * d_rms), 3)
                  + Times(Max(0, Num(100) - d_centroid \div 200), 2)
                  + Times(Max(0, Num(100) - 30 * d_zcr), 2)
                  + Times(Max(0, Num(100) - 40 * d_energy), 3)
           /\ 3 + 2 + 2 + 3 = 10
           /\ analysis.returned % Dec(1) = 0

\* C25: reference RMS=0.8 against attempt RMS=0.0, the other three
\* descriptors equal: the RMS term is 60, it contributes 18 to the overall
\* similarity, and the returned score is strictly below 100
C25_RmsScenario ==
    (/\ Returned("calculateSimilarity")
     /\ analysis.features1.rms = Dec(80)
     /\ analysis.features2.rms = 0
     /\ analysis.features1.spectralCentroid = analysis.features2.spectralCentroid
     /\ analysis.features1.zcr = analysis.features2.zcr
     /\ analysis.features1.energy = analysis.features2.energy) =>
        /\ analysis.rmsSimilarity = Num(60)
        /\ Times(analysis.rmsSimilarity, 3) = Num(18)
        /\ analysis.returned < Num(100)

\* the differences the descriptor values of the model can have
Diffs(values) == {Abs(a - b) : a \in values, b \in values}

\* the term of a descriptor at difference d, in the file that was called
TermOf(descriptor, d) ==
    IF analysis.file = "variant"
    THEN CASE descriptor = "rms" -> rmsSimilarity_fun(d)
           [] descriptor = "spectralCentroid" -> spectralSimilarity_fun(d)
           [] descriptor = "zcr" -> zcrSimilarity_fun(d)
           [] descriptor = "energy" -> energySimilarity_fun(d)
    ELSE CASE descriptor = "rms" -> rmsSimilarity(d)
           [] descriptor = "spectralCentroid" -> spectralSimilarity(d)
           [] descriptor = "zcr" -> zcrSimilarity(d)
           [] descriptor = "energy" -> energySimilarity(d)

\* the term of the call does not drop below 0, and no larger difference of
\* the descriptor has a larger term
TermMonotone(term, descriptor, d, values) ==
    /\ term >= 0
    /\ \A e \in Diffs(values) : e >= d => TermOf(descriptor, e) <= term

\* C26: for each of the four descriptors, a larger absolute difference, the
\* others fixed, never has a larger per-descriptor similarity term, and the
\* term is never below 0 (both files of the service)
C26_TermsMonotone ==
    Returned("calculateSimilarity") =>
        LET features1 == analysis.features1
            features2 == analysis.features2
        IN /\ TermMonotone(analysis.rmsSimilarity, "rms",
                           rmsDiff(features1, features2), RmsValues)
           /\ TermMonotone(analysis.spectralSimilarity, "spectralCentroid",
                           spectralDiff(features1, features2), CentroidValues)
           /\ TermMonotone(analysis.zcrSimilarity, "zcr",
                           zcrDiff(features1, features2), ZcrValues)
           /\ TermMonotone(analysis.energySimilarity, "energy",
                           energyDiff(features1, features2), EnergyValues)

\* a call whose centroids differ by 1 Hz: the term is below
\* that of equal centroids, above that of the largest difference, which is 0
C26_Witness ==
    /\ Returned("calculateSimilarity")
    /\ spectralDiff(analysis.features1, analysis.features2) = Num(1)
    /\ analysis.spectralSimilarity < TermOf("spectralCentroid", 0)
    /\ analysis.spectralSimilarity > TermOf("spectralCentroid", Num(1000000))
    /\ TermOf("spectralCentroid", Num(1000000)) = 0

\* ---- the analysis window -------------------------------------------------
\* C27: extractFeatures on a buffer with zero samples, or on a missing
\* buffer, returns null without invoking the spectral analysis, and has no
\* other effect: nothing of the component changes, no error is reported
C27_EmptyInput ==
    (/\ Returned("extractFeatures")
     /\ ~analysis.audioBuffer.present \/ analysis.audioBuffer.length = 0) =>
        /\ analysis.returned = "null"
        /\ analysis.extract = <<>>
        /\ analysis.console # "error"
        /\ Constructed

\* a buffer of two channels and no samples was given
C27_Witness ==
    /\ Returned("extractFeatures")
    /\ analysis.audioBuffer.present
    /\ analysis.audioBuffer.numberOfChannels = 2
    /\ analysis.audioBuffer.length = 0
    /\ analysis.returned = "null"

\* C28: for every non-empty buffer, the signal passed to the analysis is the
\* first min(4096, buffer.length) samples of channel 0: it has that length
\* and equals that prefix
C28_AnalysisWindow ==
    (/\ Returned("extractFeatures")
     /\ analysis.audioBuffer.present
     /\ analysis.audioBuffer.length > 0) =>
        /\ Len(analysis.extract) = 1
        /\ LET signal == analysis.extract[1]
               channel0 == analysis.audioBuffer.channelData[1]
           IN /\ Len(signal) = Min(4096, analysis.audioBuffer.length)
              /\ \A i \in 1..Len(signal) : signal[i] = channel0[i]

\* a buffer of two channels, longer than the window, was given
C28_Witness ==
    /\ Returned("extractFeatures")
    /\ analysis.audioBuffer.numberOfChannels = 2
    /\ analysis.audioBuffer.length = 10000
    /\ Len(analysis.extract[1]) = 4096
    /\ analysis.returned = "features"

\* C29: for every non-empty buffer shorter than the 4096-sample window,
\* whatever its length, extractFeatures processes exactly the available
\* samples and returns a feature set without error
C29_ShortBufferAnalysed ==
    (/\ Returned("extractFeatures")
     /\ analysis.audioBuffer.present
     /\ analysis.audioBuffer.length > 0
     /\ analysis.audioBuffer.length < 4096) =>
        /\ analysis.returned = "features"
        /\ analysis.console # "error"
        /\ analysis.features = [of |-> analysis.audioBuffer.channelData[1]]

\* ---- entities ------------------------------------------------------------
\* what a keyed map holds for the entity, if anything
Entry(map, id) == IF id \in DOMAIN map THEN <<map[id]>> ELSE <<>>

\* the run of a handler, called in library state L0, leaves what the
\* component and the library hold for the entity as it is, and creates no
\* instance for it
Keeps(run, L0, id) ==
    /\ Entry(run.recordingSessions, id) = Entry(recordingSessions, id)
    /\ Entry(run.wavesurfers, id) = Entry(wavesurfers, id)
    /\ Entry(run.similarityScores, id) = Entry(similarityScores, id)
    /\ LET L == LibAfter(L0, run.calls)
       IN /\ L.timers[id] = timers[id]
          /\ \A r \in DOMAIN L.ws : OwnerOf(r) = id => (r \in DOMAIN ws /\ L.ws[r] = ws[r])
          /\ \A r \in DOMAIN L.recorder :
                OwnerOf(r) = id => (r \in DOMAIN recorder /\ L.recorder[r] = recorder[r])

\* C30: entities do not interfere: an operation or notification for entity A
\* (onPokemonClick, toggleRecording, capture-complete, decode-ready, the
\* timer-driven compareAudio), in whatever state it finds the component,
\* leaves the session, the reference, the published score, the library
\* instances and the pending timers of every other entity B as they were
C30_NoInterference ==
    \A a \in Ids, b \in Ids :
       a # b =>
          /\ \A cryUrl \in BOOLEAN : Keeps(onPokemonClick(a, cryUrl), Lib, b)
          /\ Keeps(toggleRecording(a), Lib, b)
          /\ \A record \in DOMAIN recorder, destroyThrows \in BOOLEAN :
                (OwnerOf(record) = a /\ recorder[record].pendingEnds > 0) =>
                   Keeps(recordEnd(record, destroyThrows),
                         [Lib EXCEPT !.recorder[record].pendingEnds = @ - 1], b)
          /\ \A r \in DOMAIN ws, decoded \in {"ready", "empty"} :
                (OwnerOf(r) = a /\ ws[r].decode = "pending") =>
                   Keeps(ready(r), [Lib EXCEPT !.ws[r].decode = decoded], b)
          /\ timers[a] > 0 =>
                Keeps(compareAudio(a), [Lib EXCEPT !.timers[a] = @ - 1], b)

\* one entity has a published score, a session and a reference, and another
\* entity is recording
C30_Witness ==
    \E a \in Ids, b \in Ids :
       /\ a # b
       /\ ScoreOf(b) # <<>>
       /\ HasSession(b)
       /\ b \in DOMAIN wavesurfers
       /\ IsRecording(a)

\* ---- late notifications --------------------------------------------------
\* C31: for any interleaving of toggleRecording calls and record-end
\* notifications, a start issued between a stop and its record-end included,
\* the captured playback of a session is created once: once
\* playbackWavesurfer is attached, no later record-end replaces it
C31_PlaybackNeverReplaced ==
    [][\A id \in Ids :
          (PlaybackOf(id) # NoWs /\ HasSession(id)') =>
             PlaybackOf(id)' = PlaybackOf(id)]_vars

\* the state of the capture of the entity's session
CaptureState(id) == recorder[recordingSessions[id].wavesurfer].state

\* C32: in every reachable state session.isRecording agrees with the
\* recorder, also when startRecording completes later or fails: a session
\* flagged as recording has a capture that is active or about to be, so that
\* stopRecording is invoked on a capture in progress, and an active capture
\* is flagged (the time between the call of startRecording and the grant of
\* the microphone is allowed for)
C32_FlagTracksCapture ==
    \A id \in Ids :
       HasSession(id) =>
          /\ recordingSessions[id].isRecording =>
                CaptureState(id) \in {"starting", "recording"}
          /\ CaptureState(id) = "recording" => recordingSessions[id].isRecording

\* a run, started in library state L0, invokes an operation (play, stop,
\* startRecording, stopRecording, getDecodedData, destroy) on an instance
\* that has received destroy before
UsesDestroyed(run, L0) ==
    \E n \in 1..Len(run.calls) :
       /\ run.calls[n][1] \notin {"create", "setTimeout"}
       /\ LibAfter(L0, SubSeq(run.calls, 1, n - 1)).ws[run.calls[n][2]].destroyCalls >= 1

\* C33: no operation is invoked on an audio resource after destroy has been
\* called on it, in the record-end handler, in toggleRecording, in
\* compareAudio and in teardown, in whatever state they run
C33_NoUseAfterDestroy ==
    /\ \A record \in DOMAIN recorder, destroyThrows \in BOOLEAN :
          (/\ recorder[record].pendingEnds > 0
           /\ destroyThrows => ws[record].destroyCalls >= 1) =>
             ~UsesDestroyed(recordEnd(record, destroyThrows),
                            [Lib EXCEPT !.recorder[record].pendingEnds = @ - 1])
    /\ \A id \in Ids :
          /\ ~UsesDestroyed(toggleRecording(id), Lib)
          /\ timers[id] > 0 =>
                ~UsesDestroyed(compareAudio(id), [Lib EXCEPT !.timers[id] = @ - 1])
    /\ \A F \in SUBSET Faulty : ~UsesDestroyed(ngOnDestroy(F), Lib)

\* C34: a record-end notification modifies only the session whose recorder
\* emitted it: it changes no other session, a session created later for the
\* same entity id included; and a comparison timer that finds no session, or
\* a decode-ready notification, adds no entry to the session map, the
\* reference map or the score map
C34_RecordEndOwnSessionOnly ==
    [][/\ \A record \in DOMAIN recorder, destroyThrows \in BOOLEAN :
             RecordEnd(record, destroyThrows) =>
                \A id \in Ids :
                   (HasSession(id) /\ recordingSessions[id].wavesurfer # record) =>
                      Entry(recordingSessions, id)' = Entry(recordingSessions, id)
       /\ \A id \in Ids : (TimerFires(id) /\ ~HasSession(id)) => UNCHANGED Fields
       /\ \A r \in DOMAIN ws, decoded \in {"ready", "empty"} :
             DecodeReady(r, decoded) => UNCHANGED Fields]_vars

\* ---- the boost steps -----------------------------------------------------
\* what the file that was called returns for a pair
ReturnOf(features1, features2) ==
    IF analysis.file = "variant"
    THEN calculateSimilarity_fun(features1, features2)
    ELSE calculateSimilarity(features1, features2)

\* the feature sets that differ from features2 in one descriptor only and
\* are at least as far from features1 in it
Farther(features1, features2) ==
    {[features2 EXCEPT !.rms = v] :
        v \in {x \in RmsValues :
                 Abs(features1.rms - x) >= rmsDiff(features1, features2)}}
    \cup {[features2 EXCEPT !.spectralCentroid = v] :
        v \in {x \in CentroidValues :
                 Abs(features1.spectralCentroid - x) >= spectralDiff(features1, features2)}}
    \cup {[features2 EXCEPT !.zcr = v] :
        v \in {x \in ZcrValues :
                 Abs(features1.zcr - x) >= zcrDiff(features1, features2)}}
    \cup {[features2 EXCEPT !.energy = v] :
        v \in {x \in EnergyValues :
                 Abs(features1.energy - x) >= energyDiff(features1, features2)}}

\* C35: the score calculateSimilarity returns, after boost and rounding, does
\* not rise when one descriptor's absolute difference grows and the other
\* three stay: the boost steps at 70 and 80 never make a less similar pair
\* score higher than a more similar one (both files of the service)
C35_ScoreMonotone ==
    Returned("calculateSimilarity") =>
        \A farther \in Farther(analysis.features1, analysis.features2) :
           ReturnOf(analysis.features1, farther) <= analysis.returned

\* a call of the variant whose overall similarity is boosted by 10, with a
\* pair that is farther in one descriptor, is boosted by 5 only and scores
\* lower
C35_Witness ==
    /\ Returned("calculateSimilarity")
    /\ analysis.file = "variant"
    /\ analysis.overallSimilarity >= Num(80)
    /\ analysis.returned < Num(100)
    /\ \E farther \in Farther(analysis.features1, analysis.features2) :
          /\ overallSimilarity_fun(analysis.features1, farther) >= Num(70)
          /\ overallSimilarity_fun(analysis.features1, farther) < Num(80)
          /\ ReturnOf(analysis.features1, farther) < analysis.returned
====
